---- MODULE Spec2Model ----
(***************************************************************************)
(* A model of the OS simulator of src/script.js: the CPU scheduler         *)
(* (addProcess, runScheduler and the four scheduling functions) and the    *)
(* memory allocator (allocateMemory, deallocateMemory, compactMemory) and   *)
(* the disk queue (addDiskRequest, processDiskRequests, clearDiskRequests). *)
(*                                                                         *)
(* JavaScript objects are shared by reference.  The global array           *)
(* `processes` is modelled as a sequence of records; every local array of  *)
(* process objects (processList, queue, readyQueue) is a sequence of       *)
(* indices into `processes`, so that a write through a local array is a    *)
(* write to the object the global array holds.  The elements of            *)
(* `scheduled` are fresh objects ({...process, startTime, duration}) and   *)
(* are modelled as records copied at the moment of the push.               *)
(***************************************************************************)
EXTENDS Integers, Sequences, FiniteSets

\* ------------------------------------------------------------------ bounds
MaxProcs    == 3
MaxArrival  == 2
MaxBurst    == 2
MaxPriority == 2
MaxQuantum  == 2
MaxRuns     == 2
MaxGranules == 9
Granule     == 112
MaxPieces   == 3
MaxBlocks   == 4
\* calls made on dbManager
MaxCalls == 4

MaxRequests == 4

\* ------------------------------------------------------- program constants
DefaultQuantum == 4
TotalMemory    == 1024
OSSize         == 128
UserSpace      == 896
DefaultProcessSize == 100
MaxCylinder    == 199
InitialHead    == 50

\* the value of a property that was never assigned (process.startTime
\* before the first FCFS/SJF/Priority run)
Undefined == 0 - 1

VARIABLES
    processes,        \* the global process list
    pc,               \* where the scheduler is: idle, inside a scheduling function, done
    algorithm,        \* the algorithm of the run in progress / last run
    quantum,          \* timeQuantum of the run
    processList,      \* the sorted copy ([...processes].sort), as indices
    readyQueue,       \* SJF / Priority ready queue, as indices
    i,                \* SJF / Priority cursor into processList (1-based)
    idx,              \* forEach / for-of position (1-based)
    currentTime,      \* the clock of the run
    scheduled,        \* the trace under construction / returned
    processesAtCall,  \* the value of `processes` when runScheduler was called
    runs,             \* number of runScheduler calls so far
    statistics,       \* what calculateStatistics last wrote to the page
    alert,            \* the message of the alert the last handler call raised
    memoryBlocks,     \* the global memory block list
    memoryLog,        \* type of the last addMemoryLog entry
    diskRequests,     \* the global disk request list
    headPosition,     \* the number shown in #headPosition
    totalSeekDistance,\* the number shown in #totalSeekDistance
    avgSeekTime,      \* what #avgSeekTime shows: the sum of the seek times of the
                      \* last run (in tenths of a millisecond) and their number
    isConnected,      \* dbManager.isConnected
    dbStatus,         \* the class #dbStatus shows: disconnected, connecting, connected
    calls             \* the connect() / disconnect() calls made on dbManager, in
                      \* the order they started, each with the point it has reached

schedVars == <<processes, pc, algorithm, quantum, processList, readyQueue, i, idx,
               currentTime, scheduled, processesAtCall, runs, statistics>>
memVars   == <<memoryBlocks, memoryLog>>
diskVars  == <<diskRequests, headPosition, totalSeekDistance, avgSeekTime>>
dbVars    == <<isConnected, dbStatus, calls>>
vars      == <<processes, pc, algorithm, quantum, processList, readyQueue, i, idx,
               currentTime, scheduled, processesAtCall, runs, statistics, alert,
               memoryBlocks, memoryLog,
               diskRequests, headPosition, totalSeekDistance, avgSeekTime,
               isConnected, dbStatus, calls>>

\* ----------------------------------------------------------------- helpers
Min(a, b) == IF a < b THEN a ELSE b
Max(a, b) == IF a > b THEN a ELSE b

\* parseInt(x) || d  for a numeric input: 0 is falsy and gives the default
OrDefault(v, d) == IF v = 0 THEN d ELSE v

RECURSIVE SumSeq(_)
SumSeq(s) == IF s = <<>> THEN 0 ELSE Head(s) + SumSeq(Tail(s))

\* Array.prototype.sort is stable.  The comparator (a, b) => a[f] - b[f]
\* orders by field f ascending; elements that compare equal keep their order.
\* Insert x behind every element that does not compare greater than x.
RECURSIVE InsertByUnstable(_, _, _)
InsertByUnstable(s, x, f) ==
    IF s = <<>> THEN <<x>>
    ELSE IF processes[Head(s)][f] - processes[x][f] >= 0
         THEN <<x>> \o s
         ELSE <<Head(s)>> \o InsertByUnstable(Tail(s), x, f)

RECURSIVE InsertBy(_, _, _)
InsertBy(s, x, f) ==
    IF s = <<>> THEN <<x>>
    ELSE IF processes[Head(s)][f] - processes[x][f] > 0
         THEN <<x>> \o s
         ELSE <<Head(s)>> \o InsertBy(Tail(s), x, f)

RECURSIVE SortBy(_, _)
SortBy(s, f) ==
    IF s = <<>> THEN <<>>
    ELSE InsertBy(SortBy(SubSeq(s, 1, Len(s) - 1), f), s[Len(s)], f)

Indices == [k \in 1..Len(processes) |-> k]

\* ------------------------------------------------------------------- Init
\* block owners: 'OS', `P${n}` and null
OS == <<"OS">>
P(n) == <<"P", n>>
Null == <<>>

OSBlock == [id |-> 1, processName |-> OS, size |-> OSSize,
            startAddress |-> 0, endAddress |-> OSSize, status |-> "allocated"]

\* the page before calculateStatistics has written to it
NoStatistics ==
    [count |-> Undefined, waiting |-> Undefined, turnaround |-> Undefined,
     busy |-> Undefined, totalTime |-> Undefined]

InitSched ==
    /\ processes = <<>>
    /\ pc = "idle"
    /\ algorithm = "none"
    /\ quantum = 0
    /\ processList = <<>>
    /\ readyQueue = <<>>
    /\ i = 1
    /\ idx = 1
    /\ currentTime = 0
    /\ scheduled = <<>>
    /\ processesAtCall = <<>>
    /\ runs = 0
    /\ statistics = NoStatistics
    /\ alert = "none"

InitMem ==
    /\ memoryBlocks = <<OSBlock>>
    /\ memoryLog = "none"

\* the disk queue is empty and the page shows no distance and no time; the
\* page shows the head at cylinder InitialHead
InitDisk ==
    /\ diskRequests = <<>>
    /\ headPosition = InitialHead
    /\ totalSeekDistance = 0
    /\ avgSeekTime = [sum |-> 0, count |-> 0]

\* new DatabaseManager(): not connected; the page is built with #dbStatus
\* showing "disconnected"; no call has been made
InitDb ==
    /\ isConnected = FALSE
    /\ dbStatus = "disconnected"
    /\ calls = <<>>

Init == InitSched /\ InitMem /\ InitDisk /\ InitDb

\* ------------------------------------------------------------ CPU scheduler
NewProcess(arrivalIn, burstIn, priorityIn) ==
    [id             |-> Len(processes) + 1,
     name           |-> Len(processes) + 1,      \* `P${processes.length + 1}`
     arrivalTime    |-> OrDefault(arrivalIn, 0),
     burstTime      |-> OrDefault(burstIn, 1),
     priority       |-> OrDefault(priorityIn, 1),
     remainingTime  |-> OrDefault(burstIn, 1),
     waitingTime    |-> 0,
     turnaroundTime |-> 0,
     completionTime |-> 0,
     startTime      |-> Undefined]

\* the form values addProcess reads, <<arrivalTime, burstTime, priority>>: a
\* grid of small values (0 stands for an empty field) and the three processes
\* of the FCFS / SJF scenario (P1,0,5), (P2,1,3), (P3,2,8)
ScenarioInputs == {<<0, 5, 1>>, <<1, 3, 1>>, <<2, 8, 1>>}
ProcessInputs ==
    ((0..MaxArrival) \X (0..MaxBurst) \X (0..MaxPriority)) \cup ScenarioInputs

addProcess ==
    /\ pc = "idle"
    /\ Len(processes) < MaxProcs
    /\ \E in \in ProcessInputs :
          processes' = Append(processes, NewProcess(in[1], in[2], in[3]))
    /\ UNCHANGED <<pc, algorithm, quantum, processList, readyQueue, i, idx,
                   currentTime, scheduled, processesAtCall, runs>>
    /\ alert' = "none"
    /\ UNCHANGED <<statistics, memVars, diskVars, dbVars>>

Algorithms == {"fcfs", "sjf", "priority", "rr"}

\* queue.forEach(p => p.remainingTime = p.burstTime)
ResetRemaining(ps) ==
    [k \in 1..Len(ps) |-> [ps[k] EXCEPT !.remainingTime = ps[k].burstTime]]

\* Math.max() of no arguments
NegInfinity == 0 - 1

\* calculateStatistics(scheduledProcesses): the entries of completedProcesses
\* are the last slice of each name among the slices with a truthy
\* completionTime; the page gets the sums over them divided by their number,
\* and the sum of the durations divided by the largest startTime + duration
Statistics(trace) ==
    LET Truthy(j) == trace[j].completionTime # 0
        names == {trace[j].name : j \in {k \in 1..Len(trace) : Truthy(k)}}
        Entry(n) ==
            trace[CHOOSE j \in 1..Len(trace) :
                     /\ trace[j].name = n /\ Truthy(j)
                     /\ \A k \in (j + 1)..Len(trace) : ~(trace[k].name = n /\ Truthy(k))]
        Over(f) ==
            SumSeq([n \in 1..Len(processes) |-> IF n \in names THEN Entry(n)[f] ELSE 0])
        ends == {trace[j].startTime + trace[j].duration : j \in 1..Len(trace)}
    IN  [count      |-> Cardinality(names),
         waiting    |-> Over("waitingTime"),
         turnaround |-> Over("turnaroundTime"),
         busy       |-> SumSeq([j \in 1..Len(trace) |-> trace[j].duration]),
         totalTime  |-> IF ends = {} THEN NegInfinity
                        ELSE CHOOSE e \in ends : \A o \in ends : o <= e]

Dispatched == {"fcfs", "sjf", "priority", "rr"}

RunWithUnguarded(alg) ==
    /\ pc = "idle"
    /\ \/ /\ Len(processes) = 0
          /\ alert' = "none"
          /\ statistics' = Statistics(<<>>)
          /\ UNCHANGED <<processes, pc, algorithm, quantum, processList, readyQueue, i,
                         idx, currentTime, scheduled, processesAtCall, runs>>
       \/ /\ Len(processes) # 0
          /\ runs < MaxRuns
          /\ \E q \in 0..MaxQuantum :
                /\ alg # "rr" => q = 0
                /\ quantum' = OrDefault(q, DefaultQuantum)
          /\ algorithm' = alg
          /\ pc' = CASE alg = "rr" -> "rr_while"
                     [] alg \in Dispatched \ {"rr"} -> alg
                     [] OTHER -> "done"
          /\ processes' = IF alg = "rr" THEN ResetRemaining(processes) ELSE processes
          /\ processList' = IF alg \in Dispatched THEN SortBy(Indices, "arrivalTime")
                             ELSE <<>>
          /\ readyQueue' = <<>>
          /\ i' = 1
          /\ idx' = 1
          /\ currentTime' = 0
          /\ scheduled' = <<>>
          /\ processesAtCall' = processes
          /\ runs' = runs + 1
          /\ alert' = "none"
          /\ UNCHANGED statistics
    /\ UNCHANGED <<memVars, diskVars, dbVars>>

\* runScheduler with algorithm tag alg, up to and including the prologue of
\* the scheduling function it dispatches to: the copy, the sort by
\* arrivalTime and, for Round Robin, the reset of remainingTime. With an
\* empty list it alerts and returns; with a tag that no case of the switch
\* names, scheduledProcesses stays [] and the epilogue follows.
RunWith(alg) ==
    /\ pc = "idle"
    /\ \/ /\ Len(processes) = 0
          /\ alert' = "Add processes first!"
          /\ UNCHANGED schedVars
       \/ /\ Len(processes) # 0
          /\ runs < MaxRuns
          /\ \E q \in 0..MaxQuantum :
                /\ alg # "rr" => q = 0
                /\ quantum' = OrDefault(q, DefaultQuantum)
          /\ algorithm' = alg
          /\ pc' = CASE alg = "rr" -> "rr_while"
                     [] alg \in Dispatched \ {"rr"} -> alg
                     [] OTHER -> "done"
          /\ processes' = IF alg = "rr" THEN ResetRemaining(processes) ELSE processes
          /\ processList' = IF alg \in Dispatched THEN SortBy(Indices, "arrivalTime")
                             ELSE <<>>
          /\ readyQueue' = <<>>
          /\ i' = 1
          /\ idx' = 1
          /\ currentTime' = 0
          /\ scheduled' = <<>>
          /\ processesAtCall' = processes
          /\ runs' = runs + 1
          /\ alert' = "none"
          /\ UNCHANGED statistics
    /\ UNCHANGED <<memVars, diskVars, dbVars>>

runScheduler == \E alg \in Algorithms : RunWith(alg)

StartOfNoIdle(t, p) == t

\* if (currentTime < process.arrivalTime) currentTime = process.arrivalTime
StartOf(t, p) == IF t < p.arrivalTime THEN p.arrivalTime ELSE t

\* the four assignments of a non-preemptive run of p started at t
RunToCompletion(p, t) ==
    [p EXCEPT !.startTime      = t,
              !.completionTime = t + p.burstTime,
              !.turnaroundTime = (t + p.burstTime) - p.arrivalTime,
              !.waitingTime    = ((t + p.burstTime) - p.arrivalTime) - p.burstTime]

SliceEndAsDuration(p, t, d) ==
    [id |-> p.id, name |-> p.name, arrivalTime |-> p.arrivalTime,
     burstTime |-> p.burstTime, priority |-> p.priority,
     remainingTime |-> p.remainingTime, waitingTime |-> p.waitingTime,
     turnaroundTime |-> p.turnaroundTime, completionTime |-> p.completionTime,
     startTime |-> t, duration |-> t + d]

\* { ...process, startTime: t, duration: d }
Slice(p, t, d) ==
    [id |-> p.id, name |-> p.name, arrivalTime |-> p.arrivalTime,
     burstTime |-> p.burstTime, priority |-> p.priority,
     remainingTime |-> p.remainingTime, waitingTime |-> p.waitingTime,
     turnaroundTime |-> p.turnaroundTime, completionTime |-> p.completionTime,
     startTime |-> t, duration |-> d]

\* one iteration of processList.forEach in scheduleFCFS; the last one returns
scheduleFCFS ==
    /\ pc = "fcfs"
    /\ idx <= Len(processList)
    /\ LET ref == processList[idx]
           t   == StartOf(currentTime, processes[ref])
           p   == RunToCompletion(processes[ref], t)
       IN  /\ processes' = [processes EXCEPT ![ref] = p]
           /\ scheduled' = Append(scheduled, Slice(p, t, p.burstTime))
           /\ currentTime' = p.completionTime
    /\ idx' = idx + 1
    /\ pc' = IF idx = Len(processList) THEN "done" ELSE "fcfs"
    /\ UNCHANGED <<algorithm, quantum, processList, readyQueue, i, processesAtCall, runs>>
    /\ UNCHANGED <<statistics, alert, memVars, diskVars, dbVars>>

\* while (i < n && processList[i].arrivalTime <= currentTime) readyQueue.push(processList[i++])
RECURSIVE Admitted(_, _)
Admitted(from, t) ==
    IF from <= Len(processList) /\ processes[processList[from]].arrivalTime <= t
    THEN Admitted(from + 1, t)
    ELSE from

\* one iteration of the while loop of scheduleSJF (key "burstTime") and of
\* schedulePriority (key "priority"); the iteration that empties both the
\* list and the queue returns
ReadyQueueStep(key) ==
    LET next  == Admitted(i, currentTime)
        ready == readyQueue \o SubSeq(processList, i, next - 1)
    IN  IF ready = <<>>
        THEN /\ currentTime' = processes[processList[next]].arrivalTime
             /\ i' = next
             /\ UNCHANGED <<processes, readyQueue, scheduled, pc>>
        ELSE LET sorted == SortBy(ready, key)
                 ref    == Head(sorted)
                 p      == RunToCompletion(processes[ref], currentTime)
             IN  /\ processes' = [processes EXCEPT ![ref] = p]
                 /\ scheduled' = Append(scheduled, Slice(p, currentTime, p.burstTime))
                 /\ currentTime' = p.completionTime
                 /\ readyQueue' = Tail(sorted)
                 /\ i' = next
                 /\ pc' = IF next <= Len(processList) \/ Tail(sorted) # <<>>
                          THEN pc ELSE "done"

scheduleSJFUnsorted ==
    /\ pc = "sjf"
    /\ ReadyQueueStep("arrivalTime")
    /\ UNCHANGED <<algorithm, quantum, processList, idx, processesAtCall, runs>>
    /\ UNCHANGED <<statistics, alert, memVars, diskVars, dbVars>>

scheduleSJF ==
    /\ pc = "sjf"
    /\ ReadyQueueStep("burstTime")
    /\ UNCHANGED <<algorithm, quantum, processList, idx, processesAtCall, runs>>
    /\ UNCHANGED <<statistics, alert, memVars, diskVars, dbVars>>

schedulePriorityByBurst ==
    /\ pc = "priority"
    /\ ReadyQueueStep("burstTime")
    /\ UNCHANGED <<algorithm, quantum, processList, idx, processesAtCall, runs>>
    /\ UNCHANGED <<statistics, alert, memVars, diskVars, dbVars>>

schedulePriority ==
    /\ pc = "priority"
    /\ ReadyQueueStep("priority")
    /\ UNCHANGED <<algorithm, quantum, processList, idx, processesAtCall, runs>>
    /\ UNCHANGED <<statistics, alert, memVars, diskVars, dbVars>>

\* while (queue.some(p => p.remainingTime > 0))
SomeRemaining == \E k \in 1..Len(processList) : processes[processList[k]].remainingTime > 0

scheduleRoundRobinWhile ==
    /\ pc = "rr_while"
    /\ pc' = IF SomeRemaining THEN "rr_for" ELSE "done"
    /\ idx' = 1
    /\ UNCHANGED <<processes, algorithm, quantum, processList, readyQueue, i,
                   currentTime, scheduled, processesAtCall, runs>>
    /\ UNCHANGED <<statistics, alert, memVars, diskVars, dbVars>>

RunnableIgnoringArrival(p, t) == p.remainingTime > 0

\* if (process.remainingTime > 0 && process.arrivalTime <= currentTime)
Runnable(p, t) == p.remainingTime > 0 /\ p.arrivalTime <= t

ExecuteTimeQuantum(q, p) == q

\* Math.min(quantum, process.remainingTime)
ExecuteTime(q, p) == Min(q, p.remainingTime)

ExecutedStartAsCompletion(p, t, e) ==
    LET r == p.remainingTime - e
    IN  IF r = 0
        THEN [p EXCEPT !.remainingTime  = r,
                       !.completionTime = t,
                       !.turnaroundTime = t - p.arrivalTime,
                       !.waitingTime    = (t - p.arrivalTime) - p.burstTime]
        ELSE [p EXCEPT !.remainingTime = r]

\* the body of the if after the push: the clock and the process are updated
Executed(p, t, e) ==
    LET r == p.remainingTime - e
    IN  IF r = 0
        THEN [p EXCEPT !.remainingTime  = r,
                       !.completionTime = t + e,
                       !.turnaroundTime = (t + e) - p.arrivalTime,
                       !.waitingTime    = ((t + e) - p.arrivalTime) - p.burstTime]
        ELSE [p EXCEPT !.remainingTime = r]

scheduleRoundRobinForRestarting ==
    /\ pc = "rr_for"
    /\ idx <= Len(processList)
    /\ LET ref == processList[idx]
           p   == processes[ref]
           e   == ExecuteTime(quantum, p)
       IN  IF Runnable(p, currentTime)
           THEN /\ scheduled' = Append(scheduled, Slice(p, currentTime, e))
                /\ currentTime' = currentTime + e
                /\ processes' = [processes EXCEPT ![ref] = Executed(p, currentTime, e)]
                /\ pc' = "rr_while"
           ELSE /\ UNCHANGED <<scheduled, currentTime, processes>>
                /\ pc' = IF idx = Len(processList) THEN "rr_while" ELSE "rr_for"
    /\ idx' = idx + 1
    /\ UNCHANGED <<algorithm, quantum, processList, readyQueue, i, processesAtCall, runs>>
    /\ UNCHANGED <<statistics, alert, memVars, diskVars, dbVars>>

\* one iteration of for (let process of queue) in scheduleRoundRobin
scheduleRoundRobinFor ==
    /\ pc = "rr_for"
    /\ idx <= Len(processList)
    /\ LET ref == processList[idx]
           p   == processes[ref]
           e   == ExecuteTime(quantum, p)
       IN  IF Runnable(p, currentTime)
           THEN /\ scheduled' = Append(scheduled, Slice(p, currentTime, e))
                /\ currentTime' = currentTime + e
                /\ processes' = [processes EXCEPT ![ref] = Executed(p, currentTime, e)]
           ELSE UNCHANGED <<scheduled, currentTime, processes>>
    /\ idx' = idx + 1
    /\ pc' = IF idx = Len(processList) THEN "rr_while" ELSE "rr_for"
    /\ UNCHANGED <<algorithm, quantum, processList, readyQueue, i, processesAtCall, runs>>
    /\ UNCHANGED <<statistics, alert, memVars, diskVars, dbVars>>

\* the scheduling function has returned: runScheduler displays the trace,
\* computes the statistics and returns; its locals are gone
runSchedulerReturn ==
    /\ pc = "done"
    /\ pc' = "idle"
    /\ algorithm' = "none"
    /\ quantum' = 0
    /\ processList' = <<>>
    /\ readyQueue' = <<>>
    /\ i' = 1
    /\ idx' = 1
    /\ currentTime' = 0
    /\ scheduled' = <<>>
    /\ processesAtCall' = <<>>
    /\ UNCHANGED <<processes, runs>>
    /\ statistics' = Statistics(scheduled)
    /\ UNCHANGED <<alert, memVars, diskVars, dbVars>>

NextSched ==
    \/ addProcess
    \/ runScheduler
    \/ scheduleFCFS
    \/ scheduleSJF
    \/ schedulePriority
    \/ scheduleRoundRobinWhile
    \/ scheduleRoundRobinFor
    \/ runSchedulerReturn

SpecSched == Init /\ [][NextSched]_vars

\* the scheduler when the #schedulingAlgorithm select may also hold a value
\* that the switch of runScheduler has no case for
UnknownAlgorithms == {"other"}

runSchedulerAny == \E alg \in Algorithms \cup UnknownAlgorithms : RunWith(alg)

NextSchedAny ==
    \/ addProcess
    \/ runSchedulerAny
    \/ scheduleFCFS
    \/ scheduleSJF
    \/ schedulePriority
    \/ scheduleRoundRobinWhile
    \/ scheduleRoundRobinFor
    \/ runSchedulerReturn

SpecSchedAny == Init /\ [][NextSchedAny]_vars

\* Round Robin alone, with the fairness of a running loop: a loop that can
\* take its next iteration takes it
NextRR ==
    \/ addProcess
    \/ RunWith("rr")
    \/ scheduleRoundRobinWhile
    \/ scheduleRoundRobinFor
    \/ runSchedulerReturn

SpecRRFair ==
    /\ Init
    /\ [][NextRR]_vars
    /\ WF_vars(scheduleRoundRobinWhile)
    /\ WF_vars(scheduleRoundRobinFor)

\* ---------------------------------------------------------- memory allocator
\* Array.prototype.sort on block objects with the comparator
\* (a, b) => sign * (a[f] - b[f]); stable
RECURSIVE InsertBlock(_, _, _, _)
InsertBlock(s, x, f, sign) ==
    IF s = <<>> THEN <<x>>
    ELSE IF sign * (Head(s)[f] - x[f]) > 0
         THEN <<x>> \o s
         ELSE <<Head(s)>> \o InsertBlock(Tail(s), x, f, sign)

RECURSIVE SortBlocks(_, _, _)
SortBlocks(s, f, sign) ==
    IF s = <<>> THEN <<>>
    ELSE InsertBlock(SortBlocks(SubSeq(s, 1, Len(s) - 1), f, sign), s[Len(s)], f, sign)

\* the block objects of a list, each with its position in memoryBlocks (what
\* memoryBlocks.indexOf finds again)
Located(blocks) ==
    [k \in 1..Len(blocks) |->
        [at |-> k, size |-> blocks[k].size, status |-> blocks[k].status]]

IsFree(b) == b.status = "free"

\* memoryBlocks.filter(block => block.status === 'free')
FreeBlocks(blocks) == SelectSeq(Located(blocks), IsFree)

\* .filter(block => block.size >= processSize)
Fitting(free, processSize) ==
    LET Fits(b) == b.size >= processSize IN SelectSeq(free, Fits)

SelectedBlockBestUnsorted(blocks, processSize, alg) ==
    LET fit == Fitting(FreeBlocks(blocks), processSize)
        ordered == CASE alg = "first" -> fit
                     [] alg = "best"  -> fit
                     [] alg = "worst" -> SortBlocks(fit, "size", 0 - 1)
                     [] OTHER         -> <<>>
    IN  IF ordered = <<>> THEN 0 ELSE Head(ordered).at

SelectedBlockFirstStrict(blocks, processSize, alg) ==
    LET fit == Fitting(FreeBlocks(blocks), processSize)
        ordered == CASE alg = "first" -> Fitting(FreeBlocks(blocks), processSize + 1)
                     [] alg = "best"  -> SortBlocks(fit, "size", 1)
                     [] alg = "worst" -> SortBlocks(fit, "size", 0 - 1)
                     [] OTHER         -> <<>>
    IN  IF ordered = <<>> THEN 0 ELSE Head(ordered).at

SelectedBlockWorstAscending(blocks, processSize, alg) ==
    LET fit == Fitting(FreeBlocks(blocks), processSize)
        ordered == CASE alg = "first" -> fit
                     [] alg = "best"  -> SortBlocks(fit, "size", 1)
                     [] alg = "worst" -> SortBlocks(fit, "size", 1)
                     [] OTHER         -> <<>>
    IN  IF ordered = <<>> THEN 0 ELSE Head(ordered).at

SelectedBlockAnyFree(blocks, processSize, alg) ==
    LET free == FreeBlocks(blocks)
    IN  IF free = <<>> THEN 0 ELSE Head(free).at

\* the switch on the algorithm tag: the position of selectedBlock in
\* memoryBlocks, 0 when selectedBlock is undefined / null
SelectedBlock(blocks, processSize, alg) ==
    LET fit == Fitting(FreeBlocks(blocks), processSize)
        ordered == CASE alg = "first" -> fit
                     [] alg = "best"  -> SortBlocks(fit, "size", 1)
                     [] alg = "worst" -> SortBlocks(fit, "size", 0 - 1)
                     [] OTHER         -> <<>>
    IN  IF ordered = <<>> THEN 0 ELSE Head(ordered).at

IsUserAllocated(b) == b.status = "allocated" /\ b.processName # OS

RemoveAt(s, k) == SubSeq(s, 1, k - 1) \o SubSeq(s, k + 1, Len(s))

AllocatedAlwaysRemainder(blocks, at, processSize) ==
    LET selected == blocks[at]
        newBlock ==
            [id |-> Len(blocks) + 1,
             processName |-> P(Len(SelectSeq(blocks, IsUserAllocated)) + 1),
             size |-> processSize,
             startAddress |-> selected.startAddress,
             endAddress |-> selected.startAddress + processSize,
             status |-> "allocated"]
        pushed == Append(RemoveAt(blocks, at), newBlock)
        remainingBlock ==
            [id |-> Len(pushed) + 1,
             processName |-> Null,
             size |-> selected.size - processSize,
             startAddress |-> selected.startAddress + processSize,
             endAddress |-> selected.endAddress,
             status |-> "free"]
    IN  SortBlocks(Append(pushed, remainingBlock), "startAddress", 1)

\* the success branch of allocateMemory: the block list after the splice, the
\* pushes and the sort
Allocated(blocks, at, processSize) ==
    LET selected == blocks[at]
        newBlock ==
            [id |-> Len(blocks) + 1,
             processName |-> P(Len(SelectSeq(blocks, IsUserAllocated)) + 1),
             size |-> processSize,
             startAddress |-> selected.startAddress,
             endAddress |-> selected.startAddress + processSize,
             status |-> "allocated"]
        pushed == Append(RemoveAt(blocks, at), newBlock)
        remainingBlock ==
            [id |-> Len(pushed) + 1,
             processName |-> Null,
             size |-> selected.size - processSize,
             startAddress |-> selected.startAddress + processSize,
             endAddress |-> selected.endAddress,
             status |-> "free"]
        all == IF selected.size > processSize THEN Append(pushed, remainingBlock) ELSE pushed
    IN  SortBlocks(all, "startAddress", 1)

AllocationAlgorithms == {"first", "best", "worst"}

\* allocateMemory with the form value sizeIn and the algorithm tag alg
Allocate(sizeIn, alg) ==
    LET processSize == OrDefault(sizeIn, DefaultProcessSize)
        at == SelectedBlock(memoryBlocks, processSize, alg)
    IN  IF at # 0
        THEN /\ memoryBlocks' = Allocated(memoryBlocks, at, processSize)
             /\ memoryLog' = "success"
        ELSE /\ memoryBlocks' = memoryBlocks
             /\ memoryLog' = "error"

\* the sizes asked for: an empty field (0) and multiples of Granule, the
\* largest of them beyond the user space
RequestSizes == {0} \cup {k * Granule : k \in 1..MaxGranules}

allocateMemory ==
    /\ \E sizeIn \in RequestSizes, alg \in AllocationAlgorithms : Allocate(sizeIn, alg)
    /\ alert' = "none"
    /\ UNCHANGED <<schedVars, diskVars, dbVars>>

IsOS(b) == b.processName = OS

deallocateMemoryKeepsFree ==
    /\ memoryBlocks' =
          Append(SelectSeq(memoryBlocks, LAMBDA b : IsOS(b) \/ b.status = "free"),
                 [id |-> 2, processName |-> Null, size |-> UserSpace,
                  startAddress |-> OSSize, endAddress |-> TotalMemory,
                  status |-> "free"])
    /\ memoryLog' = "info"
    /\ alert' = "none"
    /\ UNCHANGED <<schedVars, diskVars, dbVars>>

deallocateMemoryKeepsAllocated ==
    /\ memoryBlocks' =
          Append(SelectSeq(memoryBlocks, LAMBDA b : b.status = "allocated"),
                 [id |-> 2, processName |-> Null, size |-> UserSpace,
                  startAddress |-> OSSize, endAddress |-> TotalMemory,
                  status |-> "free"])
    /\ memoryLog' = "info"
    /\ alert' = "none"
    /\ UNCHANGED <<schedVars, diskVars, dbVars>>

deallocateMemory ==
    /\ memoryBlocks' =
          Append(SelectSeq(memoryBlocks, IsOS),
                 [id |-> 2, processName |-> Null, size |-> UserSpace,
                  startAddress |-> OSSize, endAddress |-> TotalMemory, status |-> "free"])
    /\ memoryLog' = "info"
    /\ alert' = "none"
    /\ UNCHANGED <<schedVars, diskVars, dbVars>>

IsAllocated(b) == b.status = "allocated"

\* allocatedBlocks.forEach((block, index) => memoryBlocks.push({...block, id, startAddress, endAddress}))
RECURSIVE Repacked(_, _)
Repacked(allocatedBlocks, n) ==
    IF n = 0 THEN <<>>
    ELSE LET before == Repacked(allocatedBlocks, n - 1)
             currentAddress == IF before = <<>> THEN 0 ELSE before[n - 1].endAddress
         IN  Append(before,
                    [allocatedBlocks[n] EXCEPT !.id = n,
                                               !.startAddress = currentAddress,
                                               !.endAddress = currentAddress + allocatedBlocks[n].size])

CompactedFreeUserSpace(blocks) ==
    LET allocatedBlocks == SortBlocks(SelectSeq(blocks, IsAllocated), "startAddress", 1)
        totalAllocated == SumSeq([k \in 1..Len(allocatedBlocks) |-> allocatedBlocks[k].size])
        totalFree == TotalMemory - totalAllocated
        packed == Repacked(allocatedBlocks, Len(allocatedBlocks))
        currentAddress == IF packed = <<>> THEN 0 ELSE packed[Len(packed)].endAddress
    IN  IF totalFree > 0
        THEN Append(packed,
                    [id |-> Len(packed) + 1, processName |-> Null, size |-> UserSpace,
                     startAddress |-> currentAddress, endAddress |-> TotalMemory,
                     status |-> "free"])
        ELSE packed

CompactedDescending(blocks) ==
    LET allocatedBlocks == SortBlocks(SelectSeq(blocks, IsAllocated), "startAddress", 0 - 1)
        totalAllocated == SumSeq([k \in 1..Len(allocatedBlocks) |-> allocatedBlocks[k].size])
        totalFree == TotalMemory - totalAllocated
        packed == Repacked(allocatedBlocks, Len(allocatedBlocks))
        currentAddress == IF packed = <<>> THEN 0 ELSE packed[Len(packed)].endAddress
    IN  IF totalFree > 0
        THEN Append(packed,
                    [id |-> Len(packed) + 1, processName |-> Null, size |-> totalFree,
                     startAddress |-> currentAddress, endAddress |-> TotalMemory,
                     status |-> "free"])
        ELSE packed

Compacted(blocks) ==
    LET allocatedBlocks == SortBlocks(SelectSeq(blocks, IsAllocated), "startAddress", 1)
        totalAllocated == SumSeq([k \in 1..Len(allocatedBlocks) |-> allocatedBlocks[k].size])
        totalFree == TotalMemory - totalAllocated
        packed == Repacked(allocatedBlocks, Len(allocatedBlocks))
        currentAddress == IF packed = <<>> THEN 0 ELSE packed[Len(packed)].endAddress
    IN  IF totalFree > 0
        THEN Append(packed,
                    [id |-> Len(packed) + 1, processName |-> Null, size |-> totalFree,
                     startAddress |-> currentAddress, endAddress |-> TotalMemory,
                     status |-> "free"])
        ELSE packed

compactMemory ==
    /\ memoryBlocks' = Compacted(memoryBlocks)
    /\ memoryLog' = "success"
    /\ alert' = "none"
    /\ UNCHANGED <<schedVars, diskVars, dbVars>>

\* updateMemoryStats: the fragmentation it writes to the page, as the
\* fraction num / den of the percentage before toFixed(1)
Fragmentation(blocks) ==
    LET allocated == SelectSeq(blocks, IsAllocated)
        free == SelectSeq(blocks, IsFree)
        usedMemory == SumSeq([k \in 1..Len(allocated) |-> allocated[k].size])
        freeMemory == TotalMemory - usedMemory
        sizes == {free[k].size : k \in 1..Len(free)} \cup {0}
        largestFreeBlock == CHOOSE x \in sizes : \A y \in sizes : y <= x
    IN  IF freeMemory > 0
        THEN [num |-> (freeMemory - largestFreeBlock) * 100, den |-> freeMemory]
        ELSE [num |-> 0, den |-> 1]

NextMem ==
    \/ allocateMemory
    \/ deallocateMemory
    \/ compactMemory

SpecMem == Init /\ [][NextMem]_vars

\* allocateMemory over any form value, one below zero included; the number
\* of blocks is capped
NegativeSizes == {0 - Granule}

allocateMemoryAny ==
    /\ Len(memoryBlocks) < MaxBlocks
    /\ \E sizeIn \in RequestSizes \cup NegativeSizes, alg \in AllocationAlgorithms :
          Allocate(sizeIn, alg)
    /\ alert' = "none"
    /\ UNCHANGED <<schedVars, diskVars, dbVars>>

NextMemAny ==
    \/ allocateMemoryAny
    \/ deallocateMemory
    \/ compactMemory

SpecMemAny == Init /\ [][NextMemAny]_vars

\* The choice of selectedBlock as a function of the block list: block lists
\* with several free blocks, which the three algorithms tell apart.  A layout
\* is the OS block, up to MaxPieces blocks of the sizes of FitSizes, free or
\* allocated, and one block over the rest of the address space.
FitSizes == {50, 100, 200}
FitRequests == {80, 100, 150}
Statuses == {"free", "allocated"}
PieceSeqs == UNION {[1..n -> FitSizes \X Statuses] : n \in 1..MaxPieces}

Layout(pieces, restStatus) ==
    LET n == Len(pieces)
        StartOfPiece(k) == OSSize + SumSeq([m \in 1..(k - 1) |-> pieces[m][1]])
        Block(k, size, status) ==
            [id |-> k + 1,
             processName |-> IF status = "allocated" THEN P(k) ELSE Null,
             size |-> size,
             startAddress |-> StartOfPiece(k),
             endAddress |-> StartOfPiece(k) + size,
             status |-> status]
    IN  <<OSBlock>>
        \o [k \in 1..n |-> Block(k, pieces[k][1], pieces[k][2])]
        \o <<Block(n + 1, TotalMemory - StartOfPiece(n + 1), restStatus)>>

InitFit ==
    /\ InitSched
    /\ InitDisk
    /\ InitDb
    /\ \E pieces \in PieceSeqs, restStatus \in Statuses :
          memoryBlocks = Layout(pieces, restStatus)
    /\ memoryLog = "none"

allocateMemoryFit ==
    /\ memoryLog = "none"
    /\ \E sizeIn \in FitRequests, alg \in AllocationAlgorithms : Allocate(sizeIn, alg)
    /\ alert' = "none"
    /\ UNCHANGED <<schedVars, diskVars, dbVars>>

NextFit == allocateMemoryFit

SpecFit == InitFit /\ [][NextFit]_vars

\* ------------------------------------------------------------------ disk
Abs(x) == IF x < 0 THEN 0 - x ELSE x

SeekDistanceSigned(cylinder, head) == cylinder - head

\* Math.abs(request.cylinder - currentHeadPosition)
SeekDistance(cylinder, head) == Abs(cylinder - head)

\* seekDistance * 0.1, in tenths of a millisecond
SeekTime(seekDistance) == seekDistance

\* the algorithm tags of the form (the code stores the tag and never reads it)
DiskAlgorithms == {"scan", "sstf"}

\* the cylinders asked for, one below 0 and one above MaxCylinder included
CylinderInputs == {0 - 1, 37, 98, 122, 183, MaxCylinder + 1}

addDiskRequest ==
    /\ Len(diskRequests) < MaxRequests
    /\ \E cylinder \in CylinderInputs, alg \in DiskAlgorithms :
          IF cylinder < 0 \/ cylinder > MaxCylinder
          THEN /\ alert' = "Cylinder must be between 0 and 199"
               /\ UNCHANGED diskRequests
          ELSE /\ alert' = "none"
               /\ diskRequests' =
                     Append(diskRequests,
                            [id |-> Len(diskRequests) + 1, cylinder |-> cylinder,
                             algorithm |-> alg, seekTime |-> 0, processed |-> FALSE])
    /\ UNCHANGED <<headPosition, totalSeekDistance, avgSeekTime>>
    /\ UNCHANGED <<schedVars, memVars, dbVars>>

PendingAll(requests) == 1..Len(requests)

\* diskRequests.filter(r => !r.processed), as positions in diskRequests
Pending(requests) == {k \in 1..Len(requests) : ~requests[k].processed}

\* one call of the forEach callback, on the request at position m
ServeOne(run, m) ==
    LET seekDistance == SeekDistance(run.requests[m].cylinder, run.head)
    IN  [requests |-> [run.requests EXCEPT ![m].seekTime = SeekTime(seekDistance),
                                           ![m].processed = TRUE],
         head     |-> run.requests[m].cylinder,
         total    |-> run.total + seekDistance,
         sum      |-> run.sum + SeekTime(seekDistance),
         count    |-> run.count + 1]

\* pendingRequests.forEach(...) from position m on: the requests, the head,
\* the total distance and the sum and number of the seek times
RECURSIVE ServedFrom(_, _, _)
ServedFrom(run, m, pending) ==
    IF m > Len(run.requests) THEN run
    ELSE ServedFrom(IF m \in pending THEN ServeOne(run, m) ELSE run, m + 1, pending)

\* the pending request nearest to the head, the earliest submitted of them
Nearest(run, pending) ==
    CHOOSE m \in pending :
        \A n \in pending :
            \/ SeekDistance(run.requests[m].cylinder, run.head)
                  < SeekDistance(run.requests[n].cylinder, run.head)
            \/ /\ SeekDistance(run.requests[m].cylinder, run.head)
                     = SeekDistance(run.requests[n].cylinder, run.head)
               /\ m <= n

RECURSIVE ServedNearestFirst(_, _)
ServedNearestFirst(run, pending) ==
    IF pending = {} THEN run
    ELSE LET m == Nearest(run, pending)
         IN  ServedNearestFirst(ServeOne(run, m), pending \ {m})

ProcessWithNearestFirst(alg) ==
    /\ IF Pending(diskRequests) = {}
       THEN /\ alert' = "No pending disk requests"
            /\ UNCHANGED diskVars
       ELSE LET start == [requests |-> diskRequests, head |-> headPosition,
                          total |-> 0, sum |-> 0, count |-> 0]
                run == IF alg = "sstf"
                       THEN ServedNearestFirst(start, Pending(diskRequests))
                       ELSE ServedFrom(start, 1, Pending(diskRequests))
            IN  /\ alert' = "none"
                /\ diskRequests' = run.requests
                /\ headPosition' = run.head
                /\ totalSeekDistance' = run.total
                /\ avgSeekTime' = [sum |-> run.sum, count |-> run.count]
    /\ UNCHANGED <<schedVars, memVars, dbVars>>

ProcessWithUnguarded(alg) ==
    /\ LET run == ServedFrom([requests |-> diskRequests, head |-> headPosition,
                              total |-> 0, sum |-> 0, count |-> 0],
                             1, Pending(diskRequests))
       IN  /\ alert' = "none"
           /\ diskRequests' = run.requests
           /\ headPosition' = run.head
           /\ totalSeekDistance' = run.total
           /\ avgSeekTime' = [sum |-> run.sum, count |-> run.count]
    /\ UNCHANGED <<schedVars, memVars, dbVars>>

\* processDiskRequests with the value alg of the #diskAlgorithm select: the
\* value is read into a local and never used
ProcessWith(alg) ==
    /\ IF Pending(diskRequests) = {}
       THEN /\ alert' = "No pending disk requests"
            /\ UNCHANGED diskVars
       ELSE LET run == ServedFrom([requests |-> diskRequests, head |-> headPosition,
                                   total |-> 0, sum |-> 0, count |-> 0],
                                  1, Pending(diskRequests))
            IN  /\ alert' = "none"
                /\ diskRequests' = run.requests
                /\ headPosition' = run.head
                /\ totalSeekDistance' = run.total
                /\ avgSeekTime' = [sum |-> run.sum, count |-> run.count]
    /\ UNCHANGED <<schedVars, memVars, dbVars>>

processDiskRequests == \E alg \in DiskAlgorithms : ProcessWith(alg)

clearDiskRequests ==
    /\ diskRequests' = <<>>
    /\ totalSeekDistance' = 0
    /\ avgSeekTime' = [sum |-> 0, count |-> 0]
    /\ alert' = "none"
    /\ UNCHANGED headPosition
    /\ UNCHANGED <<schedVars, memVars, dbVars>>

NextDisk ==
    \/ addDiskRequest
    \/ processDiskRequests
    \/ clearDiskRequests

SpecDisk == Init /\ [][NextDisk]_vars

\* ---------------------------------------------------------- DatabaseManager
\* connect() and disconnect() are async: connect() runs up to its first await
\* when it is called, and each later part runs as a step of its own when the
\* awaited promise settles; disconnect() has no await and runs in one step.
\* executeQuery only writes to the console, so initializeTables changes no
\* variable.
CallRefs == 1..Len(calls)

\* connect() from its call to `await new Promise(... setTimeout(resolve, 2000))`
connect ==
    /\ Len(calls) < MaxCalls
    /\ dbStatus' = "connecting"
    /\ calls' = Append(calls, [op |-> "connect", at |-> "timer"])
    /\ alert' = "none"
    /\ UNCHANGED isConnected
    /\ UNCHANGED <<schedVars, memVars, diskVars>>

\* timers of the same delay fire in the order they were set
TimerDue(k) ==
    /\ calls[k].op = "connect"
    /\ calls[k].at = "timer"
    /\ \A j \in 1..(k - 1) : calls[j].at # "timer"

\* connect() after the timer, up to `await this.initializeTables()`
connectResume ==
    \E k \in CallRefs :
        /\ TimerDue(k)
        /\ isConnected' = TRUE
        /\ dbStatus' = "connected"
        /\ calls' = [calls EXCEPT ![k].at = "tables"]
        /\ UNCHANGED <<schedVars, alert, memVars, diskVars>>

\* connect() after initializeTables: return true
connectReturn ==
    \E k \in CallRefs :
        /\ calls[k].op = "connect"
        /\ calls[k].at = "tables"
        /\ calls' = [calls EXCEPT ![k].at = "returned"]
        /\ UNCHANGED <<isConnected, dbStatus>>
        /\ UNCHANGED <<schedVars, alert, memVars, diskVars>>

disconnect ==
    /\ Len(calls) < MaxCalls
    /\ isConnected' = FALSE
    /\ dbStatus' = "disconnected"
    /\ calls' = Append(calls, [op |-> "disconnect", at |-> "returned"])
    /\ alert' = "none"
    /\ UNCHANGED <<schedVars, memVars, diskVars>>

NextDb ==
    \/ connect
    \/ connectResume
    \/ connectReturn
    \/ disconnect

SpecDb == Init /\ [][NextDb]_vars

Next == NextSched \/ NextMem \/ NextDisk \/ NextDb

Spec == Init /\ [][Next]_vars

\* ---------------------------------------------------- properties: memory
BlockRefs == 1..Len(memoryBlocks)

TotalSize == SumSeq([k \in BlockRefs |-> memoryBlocks[k].size])

\* C1: after any allocateMemory / deallocateMemory / compactMemory call,
\* successful or failed, the block sizes sum to the total address space, the
\* blocks do not overlap and the list is sorted by startAddress.
C1_MemoryPartition ==
    memoryLog # "none" =>
        /\ TotalSize = TotalMemory
        /\ \A k \in BlockRefs :
              k > 1 => /\ memoryBlocks[k - 1].startAddress <= memoryBlocks[k].startAddress
                       /\ memoryBlocks[k - 1].endAddress <= memoryBlocks[k].startAddress

\* owner, size, addresses and status of two blocks agree
SameBlock(a, b) ==
    /\ a.processName = b.processName
    /\ a.size = b.size
    /\ a.startAddress = b.startAddress
    /\ a.endAddress = b.endAddress
    /\ a.status = b.status

SortedByStart(blocks) ==
    \A k \in 2..Len(blocks) : blocks[k - 1].startAddress <= blocks[k].startAddress

\* the step replaces the free block at position k by an allocated block of
\* size s and, when the free block was larger, a free block over the rest
ReplacedAt(k, s) ==
    LET chosen == memoryBlocks[k]
        grown  == IF chosen.size > s THEN 1 ELSE 0
    IN  /\ chosen.status = "free"
        /\ chosen.size >= s
        /\ Len(memoryBlocks') = Len(memoryBlocks) + grown
        /\ \A m \in 1..(k - 1) : SameBlock(memoryBlocks'[m], memoryBlocks[m])
        /\ \A m \in (k + 1)..Len(memoryBlocks) :
              SameBlock(memoryBlocks'[m + grown], memoryBlocks[m])
        /\ memoryBlocks'[k].status = "allocated"
        /\ memoryBlocks'[k].size = s
        /\ memoryBlocks'[k].startAddress = chosen.startAddress
        /\ memoryBlocks'[k].endAddress = chosen.startAddress + s
        /\ grown = 1 =>
              /\ memoryBlocks'[k + 1].status = "free"
              /\ memoryBlocks'[k + 1].processName = Null
              /\ memoryBlocks'[k + 1].size = chosen.size - s
              /\ memoryBlocks'[k + 1].startAddress = chosen.startAddress + s
              /\ memoryBlocks'[k + 1].endAddress = chosen.endAddress
        /\ SortedByStart(memoryBlocks')

\* C11: a successful allocateMemory of size s replaces the chosen free block
\* by an allocated block of size s at the same startAddress, followed by a
\* free block over the remainder exactly when the chosen block was larger;
\* every other block keeps owner, size, addresses and status, and the list
\* ends sorted by startAddress.
C11_AllocateFrame ==
    [][memoryLog' = "success" =>
          \A sizeIn \in RequestSizes, alg \in AllocationAlgorithms :
              Allocate(sizeIn, alg) =>
                  \E k \in BlockRefs : ReplacedAt(k, OrDefault(sizeIn, DefaultProcessSize))]_vars

C11_Witness ==
    /\ memoryLog = "success"
    /\ Len(memoryBlocks) >= 4
    /\ \A k \in BlockRefs : memoryBlocks[k].status = "allocated"

\* the free blocks that can take a request of size s, as positions
Candidates(s) ==
    {k \in BlockRefs : memoryBlocks[k].status = "free" /\ memoryBlocks[k].size >= s}

\* the step allocated into the free block at position k
ChosenInStep(k) ==
    /\ memoryBlocks[k].status = "free"
    /\ \E m \in 1..Len(memoryBlocks') :
          /\ memoryBlocks'[m].status = "allocated"
          /\ memoryBlocks'[m].startAddress = memoryBlocks[k].startAddress

FreeSizes(blocks) ==
    LET free == SelectSeq(blocks, IsFree) IN [k \in 1..Len(free) |-> free[k].size]

\* an allocated block of size a directly followed by a free block of size f
AllocatedThenFree(blocks, a, f) ==
    \E k \in 1..(Len(blocks) - 1) :
        /\ blocks[k].status = "allocated" /\ blocks[k].size = a
        /\ blocks[k + 1].status = "free" /\ blocks[k + 1].size = f
        /\ blocks[k + 1].startAddress = blocks[k].endAddress

\* C12: Best-Fit chooses, among the free blocks of size >= the request, one of
\* smallest size, and of those the one with the lowest startAddress; with
\* free blocks of sizes [50, 200, 100] and request 80 it chooses the 100-block
\* and leaves allocated(80) followed by free(20).
C12_BestFit ==
    [][\A sizeIn \in FitRequests :
          (Allocate(sizeIn, "best") /\ Candidates(sizeIn) # {}) =>
              /\ \E k \in Candidates(sizeIn) :
                    /\ ChosenInStep(k)
                    /\ \A c \in Candidates(sizeIn) :
                          \/ memoryBlocks[k].size < memoryBlocks[c].size
                          \/ /\ memoryBlocks[k].size = memoryBlocks[c].size
                             /\ memoryBlocks[k].startAddress <= memoryBlocks[c].startAddress
              /\ (FreeSizes(memoryBlocks) = <<50, 200, 100>> /\ sizeIn = 80) =>
                    /\ FreeSizes(memoryBlocks') = <<50, 200, 20>>
                    /\ AllocatedThenFree(memoryBlocks', 80, 20)]_vars

C12_Witness ==
    /\ memoryLog = "success"
    /\ FreeSizes(memoryBlocks) = <<50, 200, 20>>
    /\ AllocatedThenFree(memoryBlocks, 80, 20)

\* C13: First-Fit chooses the free block with the lowest startAddress among
\* those of size >= the request.
C13_FirstFit ==
    [][\A sizeIn \in FitRequests :
          (Allocate(sizeIn, "first") /\ Candidates(sizeIn) # {}) =>
              \E k \in Candidates(sizeIn) :
                  /\ ChosenInStep(k)
                  /\ \A c \in Candidates(sizeIn) :
                        memoryBlocks[k].startAddress <= memoryBlocks[c].startAddress]_vars

C13_Witness ==
    /\ memoryLog = "success"
    /\ FreeSizes(memoryBlocks) = <<50, 100, 100>>
    /\ AllocatedThenFree(memoryBlocks, 100, 100)
    /\ memoryBlocks[Len(memoryBlocks)].status = "allocated"

\* C14: Worst-Fit chooses, among the free blocks of size >= the request, one
\* of largest size, and of those the one with the lowest startAddress.
C14_WorstFit ==
    [][\A sizeIn \in FitRequests :
          (Allocate(sizeIn, "worst") /\ Candidates(sizeIn) # {}) =>
              \E k \in Candidates(sizeIn) :
                  /\ ChosenInStep(k)
                  /\ \A c \in Candidates(sizeIn) :
                        \/ memoryBlocks[k].size > memoryBlocks[c].size
                        \/ /\ memoryBlocks[k].size = memoryBlocks[c].size
                           /\ memoryBlocks[k].startAddress <= memoryBlocks[c].startAddress]_vars

C14_Witness ==
    /\ memoryLog = "success"
    /\ FreeSizes(memoryBlocks) = <<100, 120, 200>>
    /\ AllocatedThenFree(memoryBlocks, 80, 120)
    /\ memoryBlocks[Len(memoryBlocks)].status = "allocated"

\* C15: when no free block has size >= the request, allocateMemory logs the
\* insufficient-memory error and leaves the block list as it was: a step
\* either does exactly that, or it is not an allocateMemory call with a
\* request that no free block can take.
C15_FailureLeavesBlocks ==
    [][\/ /\ memoryLog' = "error"
          /\ memoryBlocks' = memoryBlocks
       \/ \A sizeIn \in RequestSizes :
             Candidates(OrDefault(sizeIn, DefaultProcessSize)) = {} =>
                 \A alg \in AllocationAlgorithms : ~Allocate(sizeIn, alg)]_vars

C15_Witness ==
    /\ memoryLog = "error"
    /\ \E k \in BlockRefs : memoryBlocks[k].status = "free"
    /\ \E k \in BlockRefs : IsUserAllocated(memoryBlocks[k])

\* C16: allocateMemory rejects a request of size <= 0 and leaves the block
\* list unchanged, so that no reachable block list holds a block of
\* non-positive size or a block whose endAddress is below its startAddress.
C16_NoNonPositiveBlock ==
    \A k \in BlockRefs :
        /\ memoryBlocks[k].size > 0
        /\ memoryBlocks[k].endAddress >= memoryBlocks[k].startAddress

\* C17: deallocateMemory yields exactly two blocks: the OS block with its
\* size, addresses and status as before, and one free block from the OS
\* block's endAddress to 1024.
C17_DeallocateResult ==
    [][deallocateMemory =>
          /\ Len(memoryBlocks') = 2
          /\ \E k \in BlockRefs :
                /\ memoryBlocks[k].processName = OS
                /\ SameBlock(memoryBlocks'[1], memoryBlocks[k])
          /\ memoryBlocks'[2].status = "free"
          /\ memoryBlocks'[2].processName = Null
          /\ memoryBlocks'[2].startAddress = memoryBlocks'[1].endAddress
          /\ memoryBlocks'[2].endAddress = TotalMemory
          /\ memoryBlocks'[2].size = TotalMemory - memoryBlocks'[1].endAddress]_vars

C17_Witness ==
    /\ memoryLog = "info"
    /\ Len(memoryBlocks) = 2
    /\ memoryBlocks[1].processName = OS
    /\ memoryBlocks[2].status = "free"
    /\ memoryBlocks[2].size = UserSpace

\* the place of the allocated block old[j] among the allocated blocks when
\* they are put in order of startAddress
RankByStart(old, j) ==
    1 + Cardinality({m \in 1..Len(old) :
                        \/ old[m].startAddress < old[j].startAddress
                        \/ old[m].startAddress = old[j].startAddress /\ m < j})

\* C18: compactMemory keeps every allocated block with owner and size, in
\* the order of their startAddresses before the call, back to back from
\* address 0, and ends the list with exactly one free block over the rest up
\* to 1024 when space remains.
C18_CompactLayout ==
    [][compactMemory =>
          LET old  == SelectSeq(memoryBlocks, IsAllocated)
              n    == Len(old)
              used == SumSeq([k \in 1..n |-> old[k].size])
          IN  /\ Len(memoryBlocks') = n + (IF used < TotalMemory THEN 1 ELSE 0)
              /\ \A j \in 1..n :
                    LET new == memoryBlocks'[RankByStart(old, j)]
                    IN  /\ new.status = "allocated"
                        /\ new.processName = old[j].processName
                        /\ new.size = old[j].size
              /\ \A k \in 1..n :
                    /\ memoryBlocks'[k].startAddress =
                          (IF k = 1 THEN 0 ELSE memoryBlocks'[k - 1].endAddress)
                    /\ memoryBlocks'[k].endAddress =
                          memoryBlocks'[k].startAddress + memoryBlocks'[k].size
              /\ used < TotalMemory =>
                    /\ memoryBlocks'[n + 1].status = "free"
                    /\ memoryBlocks'[n + 1].startAddress = used
                    /\ memoryBlocks'[n + 1].endAddress = TotalMemory
                    /\ memoryBlocks'[n + 1].size = TotalMemory - used]_vars

C18_Witness ==
    /\ memoryLog = "success"
    /\ Len(memoryBlocks) >= 4
    /\ \A k \in BlockRefs : memoryBlocks[k].id = k
    /\ \A k \in 1..(Len(memoryBlocks) - 1) : memoryBlocks[k].status = "allocated"
    /\ memoryBlocks[Len(memoryBlocks)].status = "free"
    /\ memoryBlocks[Len(memoryBlocks)].startAddress =
          memoryBlocks[Len(memoryBlocks) - 1].endAddress

\* C19: compactMemory is idempotent: compacting the list it has produced gives
\* that same list, in ids, owners, sizes, addresses, statuses and order.
C19_CompactIdempotent ==
    [][compactMemory => Compacted(memoryBlocks') = memoryBlocks']_vars

C19_Witness ==
    /\ memoryLog = "success"
    /\ Compacted(memoryBlocks) = memoryBlocks
    /\ Len(SelectSeq(memoryBlocks, IsUserAllocated)) >= 3

\* the cylinders of the requests not yet processed, in submission order
PendingCylinders ==
    LET waiting == SelectSeq(diskRequests, LAMBDA r : ~r.processed)
    IN  [k \in 1..Len(waiting) |-> waiting[k].cylinder]

\* |c1 - h0| + |c2 - c1| + ... + |cn - c(n-1)|
PathLength(h0, c) ==
    SumSeq([k \in 1..Len(c) |->
               LET from == IF k = 1 THEN h0 ELSE c[k - 1]
               IN  IF c[k] >= from THEN c[k] - from ELSE from - c[k]])

\* C20: a processDiskRequests run from head position h0 over the pending
\* cylinders c1..cn in submission order reports totalSeekDistance
\* |c1-h0| + |c2-c1| + ... + |cn-c(n-1)| and leaves the head at cn; from
\* h0 = 50 over [98, 183, 37, 122] the total is 364.
C20_SeekDistance ==
    [][(processDiskRequests /\ PendingCylinders # <<>>) =>
          /\ totalSeekDistance' = PathLength(headPosition, PendingCylinders)
          /\ headPosition' = PendingCylinders[Len(PendingCylinders)]
          /\ (headPosition = 50 /\ PendingCylinders = <<98, 183, 37, 122>>) =>
                totalSeekDistance' = 364]_vars

C20_Witness ==
    /\ totalSeekDistance = 364
    /\ headPosition = 122
    /\ Len(diskRequests) = 4
    /\ [k \in 1..4 |-> diskRequests[k].cylinder] = <<98, 183, 37, 122>>
    /\ \A k \in 1..4 : diskRequests[k].processed
    /\ diskRequests[3].seekTime = SeekTime(146)

\* C21: across addDiskRequest and processDiskRequests calls (no clear), a
\* request that is processed stays processed and keeps its seekTime: the flag
\* goes from false to true once and no later run touches the request.
C21_ProcessedOnce ==
    [][(addDiskRequest \/ processDiskRequests) =>
          \A k \in 1..Len(diskRequests) :
              diskRequests[k].processed =>
                  /\ k <= Len(diskRequests')
                  /\ diskRequests'[k].id = diskRequests[k].id
                  /\ diskRequests'[k].processed
                  /\ diskRequests'[k].seekTime = diskRequests[k].seekTime]_vars

C21_Witness ==
    /\ Len(diskRequests) >= 2
    /\ diskRequests[1].processed /\ diskRequests[1].seekTime > 0
    /\ diskRequests[2].processed /\ diskRequests[2].seekTime > 0
    /\ totalSeekDistance =
          SeekDistance(diskRequests[2].cylinder, diskRequests[1].cylinder)
    /\ headPosition = diskRequests[2].cylinder

\* the outcomes of serving the pending requests nearest-first, one for each
\* way of choosing among equally near requests
RECURSIVE NearestFirstOutcomes(_, _)
NearestFirstOutcomes(run, pending) ==
    IF pending = {} THEN {run}
    ELSE LET Far(m) == SeekDistance(run.requests[m].cylinder, run.head)
             nearest == {m \in pending : \A n \in pending : Far(m) <= Far(n)}
         IN  UNION {NearestFirstOutcomes(ServeOne(run, m), pending \ {m}) : m \in nearest}

\* C22: the selected disk algorithm determines the service order: with SSTF
\* selected, processDiskRequests serves at each step the pending request
\* nearest the head, so that the requests' seek times, the total distance and
\* the final head are those of a nearest-first order.
C22_AlgorithmDeterminesOrder ==
    [][(ProcessWith("sstf") /\ Pending(diskRequests) # {}) =>
          \E run \in NearestFirstOutcomes([requests |-> diskRequests,
                                           head |-> headPosition,
                                           total |-> 0, sum |-> 0, count |-> 0],
                                          Pending(diskRequests)) :
              /\ diskRequests' = run.requests
              /\ headPosition' = run.head
              /\ totalSeekDistance' = run.total]_vars

\* the pending request served before the pending request at position k in
\* submission order, 0 when k is the first
PendingBefore(k) ==
    LET earlier == {m \in Pending(diskRequests) : m < k}
    IN  IF earlier = {} THEN 0 ELSE CHOOSE m \in earlier : \A n \in earlier : n <= m

C24_EmptyQueueChangesNothing ==
    [][\A alg \in DiskAlgorithms :
          (ProcessWith(alg) /\ Pending(diskRequests) = {}) =>
              /\ alert' = "No pending disk requests"
              /\ UNCHANGED <<diskRequests, headPosition, totalSeekDistance, avgSeekTime>>]_vars

C24_Witness ==
    /\ alert = "No pending disk requests"
    /\ Len(diskRequests) >= 2
    /\ totalSeekDistance > 0
    /\ avgSeekTime.count >= 1

\* ------------------------------------------------- properties: CPU scheduler
ProcRefs == 1..Len(processes)
SliceRefs == 1..Len(scheduled)

\* the slices of the trace that belong to process ref
SlicesOf(ref) == {j \in SliceRefs : scheduled[j].id = processes[ref].id}

\* the process a slice belongs to
OwnerOf(j) == CHOOSE ref \in ProcRefs : processes[ref].id = scheduled[j].id

EndOf(j) == scheduled[j].startTime + scheduled[j].duration

PrevEnd(j) == IF j = 1 THEN 0 ELSE EndOf(j - 1)

DurationOf(ref) ==
    LET F[j \in 0..Len(scheduled)] ==
            IF j = 0 THEN 0
            ELSE F[j - 1] + (IF j \in SlicesOf(ref) THEN scheduled[j].duration ELSE 0)
    IN  F[Len(scheduled)]

LastSliceOf(ref) == CHOOSE j \in SlicesOf(ref) : \A m \in SlicesOf(ref) : m <= j

Completed == pc = "done"

\* C2: a Round Robin run, once started, returns, and then every process has
\* remainingTime 0.
C2_RoundRobinTerminates ==
    (pc = "rr_while") ~>
        (pc = "done" /\ \A ref \in ProcRefs : processes[ref].remainingTime = 0)

\* C3: when the scheduling function has returned, the global process list is
\* what it was when runScheduler was called: same processes, same order, same
\* field values.
C3_RunLeavesProcessesUnchanged ==
    Completed => processes = processesAtCall

\* C4: after a completed run of any algorithm every process has
\* waitingTime >= 0 and turnaroundTime >= burstTime.
C4_WaitingNonNegative ==
    Completed =>
        \A ref \in ProcRefs :
            /\ processes[ref].waitingTime >= 0
            /\ processes[ref].turnaroundTime >= processes[ref].burstTime

C4_Witness ==
    /\ Completed
    /\ \E ref \in ProcRefs : processes[ref].waitingTime > 0
    /\ \E ref \in ProcRefs : processes[ref].arrivalTime > 0 /\ processes[ref].waitingTime = 0

\* C5: after a completed run of any algorithm every process has
\* turnaroundTime = completionTime - arrivalTime and
\* waitingTime = turnaroundTime - burstTime, completionTime being the end of
\* its last slice in the trace.
C5_MetricIdentities ==
    Completed =>
        \A ref \in ProcRefs :
            /\ SlicesOf(ref) # {}
            /\ processes[ref].completionTime = EndOf(LastSliceOf(ref))
            /\ processes[ref].turnaroundTime =
                   processes[ref].completionTime - processes[ref].arrivalTime
            /\ processes[ref].waitingTime =
                   processes[ref].turnaroundTime - processes[ref].burstTime

C5_Witness ==
    /\ Completed
    /\ algorithm = "rr"
    /\ \E ref \in ProcRefs :
          /\ Cardinality(SlicesOf(ref)) >= 2
          /\ processes[ref].waitingTime > 0
          /\ LastSliceOf(ref) # Len(scheduled)

\* the (arrivalTime, burstTime) pairs of the process list, in submission order
InputsOf(ps) == [k \in 1..Len(ps) |-> <<ps[k].arrivalTime, ps[k].burstTime>>]
ScenarioA == <<<<0, 5>>, <<1, 3>>, <<2, 8>>>>

\* C6: a finished FCFS trace holds the processes in non-decreasing
\* arrivalTime order, equal arrivals in submission order; each slice starts at
\* max(end of the previous slice, arrivalTime) and lasts burstTime; for
\* [(P1,0,5),(P2,1,3),(P3,2,8)] the completion times are 5, 8, 16 and the
\* waiting times 0, 4, 6.
C6_FCFSOrder ==
    (Completed /\ algorithm = "fcfs") =>
        /\ Len(scheduled) = Len(processes)
        /\ \A j \in SliceRefs :
              /\ scheduled[j].startTime = Max(PrevEnd(j), scheduled[j].arrivalTime)
              /\ scheduled[j].duration = scheduled[j].burstTime
              /\ processes[OwnerOf(j)].completionTime = EndOf(j)
              /\ j > 1 =>
                    \/ scheduled[j - 1].arrivalTime < scheduled[j].arrivalTime
                    \/ /\ scheduled[j - 1].arrivalTime = scheduled[j].arrivalTime
                       /\ scheduled[j - 1].id < scheduled[j].id
        /\ InputsOf(processes) = ScenarioA =>
              /\ [k \in 1..3 |-> processes[k].completionTime] = <<5, 8, 16>>
              /\ [k \in 1..3 |-> processes[k].waitingTime] = <<0, 4, 6>>

C6_Witness ==
    /\ Completed
    /\ algorithm = "fcfs"
    /\ InputsOf(processes) = ScenarioA

\* the processes that have arrived by the start of slice j and are in no
\* earlier slice
ReadyAt(j) ==
    {ref \in ProcRefs :
        /\ processes[ref].arrivalTime <= scheduled[j].startTime
        /\ \A m \in 1..(j - 1) : scheduled[m].id # processes[ref].id}

NotRunBefore(j) ==
    {ref \in ProcRefs : \A m \in 1..(j - 1) : scheduled[m].id # processes[ref].id}

\* <<key, arrivalTime, id>> of a before that of b, or equal
LexLE(a, b) ==
    \/ a[1] < b[1]
    \/ a[1] = b[1] /\ a[2] < b[2]
    \/ a[1] = b[1] /\ a[2] = b[2] /\ a[3] <= b[3]

SelectionKey(ref, f) == <<processes[ref][f], processes[ref].arrivalTime, processes[ref].id>>

\* slice j was chosen by key f among the ready processes, at the clock the
\* ready-queue protocol gives
ChosenBy(j, f) ==
    /\ OwnerOf(j) \in ReadyAt(j)
    /\ \A ref \in ReadyAt(j) : LexLE(SelectionKey(OwnerOf(j), f), SelectionKey(ref, f))
    /\ IF \E ref \in NotRunBefore(j) : processes[ref].arrivalTime <= PrevEnd(j)
       THEN scheduled[j].startTime = PrevEnd(j)
       ELSE \A ref \in NotRunBefore(j) : scheduled[j].startTime <= processes[ref].arrivalTime

\* C7: every slice of an SJF trace runs, among the processes arrived by its
\* start and not yet run, one of smallest burstTime, then earliest
\* arrivalTime, then earliest submission; with none arrived the clock jumps
\* to the next arrival.
C7_SJFSelection ==
    algorithm = "sjf" => \A j \in SliceRefs : ChosenBy(j, "burstTime")

C7_Witness ==
    /\ Completed
    /\ algorithm = "sjf"
    /\ \E j \in SliceRefs :
          /\ j > 1
          /\ scheduled[j].arrivalTime < scheduled[j - 1].arrivalTime
    /\ \E j \in SliceRefs :
          \E ref \in ReadyAt(j) :
              /\ ref # OwnerOf(j)
              /\ processes[ref].burstTime = scheduled[j].burstTime
              /\ processes[ref].arrivalTime = scheduled[j].arrivalTime

\* C8: every slice of a Priority trace runs, among the processes arrived by
\* its start and not yet run, one of lowest priority value, then earliest
\* arrivalTime, then earliest submission.
C8_PrioritySelection ==
    algorithm = "priority" => \A j \in SliceRefs : ChosenBy(j, "priority")

C8_Witness ==
    /\ Completed
    /\ algorithm = "priority"
    /\ \E j \in SliceRefs :
          \E ref \in ReadyAt(j) :
              /\ processes[ref].priority > scheduled[j].priority
              /\ processes[ref].arrivalTime < scheduled[j].arrivalTime
              /\ processes[ref].burstTime < scheduled[j].burstTime

CeilDiv(a, b) == (a + b - 1) \div b

\* C9: after a completed Round Robin run the slice durations of every process
\* sum to its burstTime and it has ceil(burstTime / quantum) slices.
C9_RoundRobinSlices ==
    (Completed /\ algorithm = "rr") =>
        \A ref \in ProcRefs :
            /\ DurationOf(ref) = processes[ref].burstTime
            /\ Cardinality(SlicesOf(ref)) = CeilDiv(processes[ref].burstTime, quantum)

C9_Witness ==
    /\ Completed
    /\ algorithm = "rr"
    /\ Len(processes) >= 2
    /\ \E ref \in ProcRefs :
          /\ Cardinality(SlicesOf(ref)) >= 3
          /\ scheduled[LastSliceOf(ref)].duration < quantum

\* C10: a finished FCFS, SJF or Priority trace has exactly one slice per
\* process, of duration burstTime.
C10_OneSlicePerProcess ==
    (Completed /\ algorithm \in {"fcfs", "sjf", "priority"}) =>
        /\ Len(scheduled) = Len(processes)
        /\ \A ref \in ProcRefs :
              /\ Cardinality(SlicesOf(ref)) = 1
              /\ \A j \in SlicesOf(ref) : scheduled[j].duration = processes[ref].burstTime

C10_Witness ==
    /\ Completed
    /\ algorithm \in {"sjf", "priority"}
    /\ Len(processes) >= 3
    /\ \E j \in SliceRefs : scheduled[j].startTime > PrevEnd(j)

\* C25: with an empty process list runScheduler raises the add-processes
\* alert and returns: no scheduling function is entered, no trace and no
\* statistics are produced and the process list stays as it was.
C25_EmptyListRejected ==
    [][\A alg \in Algorithms :
          (RunWith(alg) /\ Len(processes) = 0) =>
              /\ alert' = "Add processes first!"
              /\ pc' = "idle"
              /\ UNCHANGED <<processes, scheduled, statistics, runs>>]_vars

C25_Witness ==
    /\ alert = "Add processes first!"
    /\ processes = <<>>
    /\ pc = "idle"
    /\ statistics = NoStatistics

\* C26: a run with an algorithm tag outside the recognised set ends as a
\* reported failure and leaves the process list and the statistics on the
\* page as they were.
C26_UnsupportedAlgorithmFails ==
    [][(runSchedulerReturn /\ algorithm \notin Dispatched) =>
          /\ alert' # "none"
          /\ statistics' = statistics
          /\ processes' = processes]_vars

\* the processes that have a slice in the trace
Ran == {ref \in ProcRefs : SlicesOf(ref) # {}}

\* C27: the averages reported after a run are taken over exactly one entry
\* per process scheduled in the run, with the waitingTime and turnaroundTime
\* the run computed for it.
C27_StatisticsOfThisRun ==
    [][runSchedulerReturn =>
          /\ statistics'.count = Cardinality(Ran)
          /\ statistics'.waiting =
                SumSeq([ref \in ProcRefs |->
                           IF ref \in Ran THEN processes[ref].waitingTime ELSE 0])
          /\ statistics'.turnaround =
                SumSeq([ref \in ProcRefs |->
                           IF ref \in Ran THEN processes[ref].turnaroundTime ELSE 0])]_vars

\* F, the total size of the free blocks, and L, the size of the largest
FreeTotal ==
    LET free == SelectSeq(memoryBlocks, IsFree)
    IN  SumSeq([k \in 1..Len(free) |-> free[k].size])

FreeLargest ==
    LET free == SelectSeq(memoryBlocks, IsFree)
    IN  IF free = <<>> THEN 0
        ELSE free[CHOOSE k \in 1..Len(free) : \A m \in 1..Len(free) : free[m].size <= free[k].size].size

\* C28: in every reachable memory state the fragmentation computed by
\* updateMemoryStats is (F - L) / F x 100, and 0 when F is 0.
C28_FragmentationMetric ==
    LET shown == Fragmentation(memoryBlocks)
    IN  IF FreeTotal = 0
        THEN shown.num = 0
        ELSE shown.num * FreeTotal = (FreeTotal - FreeLargest) * 100 * shown.den

\* C29: during a scheduling run no process's remainingTime increases, and
\* when the scheduling function has returned every remainingTime is 0.
C29_RemainingTimeToZero ==
    [][/\ pc # "idle" =>
             \A ref \in ProcRefs :
                 processes'[ref].remainingTime <= processes[ref].remainingTime
       /\ (pc # "done" /\ pc' = "done") =>
             \A ref \in ProcRefs : processes'[ref].remainingTime = 0]_vars

\* C30: a reachable block list has at most one free block, and that block has
\* the highest startAddress; First-Fit, Best-Fit and Worst-Fit then select the
\* same block, or none, for every request size.
C30_SingleTrailingFreeBlock ==
    /\ Cardinality({k \in BlockRefs : memoryBlocks[k].status = "free"}) <= 1
    /\ \A k \in BlockRefs :
          memoryBlocks[k].status = "free" =>
              \A m \in BlockRefs \ {k} :
                  memoryBlocks[m].startAddress < memoryBlocks[k].startAddress
    /\ \A sizeIn \in RequestSizes :
          LET processSize == OrDefault(sizeIn, DefaultProcessSize)
          IN  /\ SelectedBlock(memoryBlocks, processSize, "first")
                    = SelectedBlock(memoryBlocks, processSize, "best")
              /\ SelectedBlock(memoryBlocks, processSize, "best")
                    = SelectedBlock(memoryBlocks, processSize, "worst")

C30_Witness ==
    /\ Len(SelectSeq(memoryBlocks, IsUserAllocated)) >= 2
    /\ memoryBlocks[Len(memoryBlocks)].status = "free"
    /\ memoryBlocks[Len(memoryBlocks)].size >= Granule
    /\ memoryLog = "success"

\* C31: in the trace of every algorithm the slices are in time order and do
\* not overlap (each starts at or after the end of the one before it), and no
\* slice starts before the arrivalTime of its process.
C31_SlicesOrdered ==
    \A j \in SliceRefs :
        /\ scheduled[j].startTime >= scheduled[j].arrivalTime
        /\ j > 1 => scheduled[j].startTime >=
                       scheduled[j - 1].startTime + scheduled[j - 1].duration

C31_Witness ==
    /\ Completed
    /\ algorithm = "rr"
    /\ Len(processes) >= 2
    /\ Len(scheduled) >= 4
    /\ \E j \in SliceRefs : scheduled[j].arrivalTime > 0
                            /\ scheduled[j].startTime > scheduled[j].arrivalTime

\* C32: when Round Robin gives a process two slices in a row, no other
\* process was runnable at the start of the second: each had remainingTime 0
\* or an arrivalTime after that start.
C32_RepeatOnlyWhenAlone ==
    [][(/\ pc = "rr_for"
        /\ Len(scheduled) >= 1
        /\ Len(scheduled') = Len(scheduled) + 1
        /\ scheduled'[Len(scheduled')].id = scheduled[Len(scheduled)].id) =>
          \A ref \in ProcRefs :
              processes[ref].id # scheduled[Len(scheduled)].id =>
                  \/ processes[ref].remainingTime = 0
                  \/ processes[ref].arrivalTime > scheduled'[Len(scheduled')].startTime]_vars

C32_Witness ==
    /\ Completed
    /\ algorithm = "rr"
    /\ Len(processes) >= 2
    /\ \E j \in 2..Len(scheduled) :
          /\ scheduled[j].id = scheduled[j - 1].id
          /\ \E m \in 1..(j - 2) : scheduled[m].id # scheduled[j].id

\* C33: after any sequence of allocateMemory / deallocateMemory /
\* compactMemory calls the ids of the blocks in memoryBlocks are pairwise
\* distinct.
C33_BlockIdsDistinct ==
    \A k, m \in BlockRefs : k # m => memoryBlocks[k].id # memoryBlocks[m].id

\* C34: once disconnect() has run, isConnected stays false until a connect()
\* call that starts after it: while the last call started on dbManager is a
\* disconnect(), the manager is not connected, whatever earlier connect()
\* calls do when they resume.
C34_DisconnectHolds ==
    (Len(calls) > 0 /\ calls[Len(calls)].op = "disconnect") => isConnected = FALSE

====
